---- MODULE Spec2Model ----
(***************************************************************************)
(* quick-auth: the authentication engine (src/src/core/engine.ts), the     *)
(* default JWT strategy (src/src/strategies/jwt.ts), the Express           *)
(* middleware (src/src/middleware/express.ts) and the in-memory storage    *)
(* adapter (adapters/memory.ts, kept in src/README.md:502-567).            *)
(*                                                                         *)
(* JavaScript strings that the code inspects character by character        *)
(* (emails, passwords, bcrypt hashes) are sequences of one-character       *)
(* strings; objects are functions from key names to values, a key that is  *)
(* not populated being absent from the domain.                             *)
(***************************************************************************)
EXTENDS Integers, Sequences, FiniteSets, TLC

VARIABLES
    users,       \* MemoryAdapter.users: id -> user object
    emailIndex,  \* MemoryAdapter.emailIndex: lower-cased email -> id
    uuidCount,   \* how many identifiers crypto.randomUUID() has handed out
    now,         \* the clock, in days
    config,      \* the AuthConfig the engine was constructed with
    call,        \* the last operation invoked and its arguments
    ret,         \* what that operation returned (or threw)
    log,         \* the collaborator invocations that operation made, in order
    tasks,       \* the register calls in flight, by caller (interleaved runs)
    held         \* the token a client kept from its last register or login

vars == <<users, emailIndex, uuidCount, now, config, call, ret, log, tasks, held>>

(***************************************************************************)
(* Bounds of the model.                                                    *)
(***************************************************************************)
\* createUser calls in one run (each takes a fresh UUID)
MaxUsers == 3
\* callers whose register calls overlap in an interleaved run, one call each
MaxTasks == 2

(***************************************************************************)
(* Objects.                                                                *)
(***************************************************************************)
\* { ...a, ...b }
Merge(a, b) ==
    [k \in DOMAIN a \cup DOMAIN b |-> IF k \in DOMAIN b THEN b[k] ELSE a[k]]

\* const { k, ...rest } = r
Omit(r, ks) == [k \in DOMAIN r \ ks |-> r[k]]

\* Map.set(k, v)
MapSet(m, key, v) == [k \in DOMAIN m \cup {key} |-> IF k = key THEN v ELSE m[k]]

\* Map.delete(k)
MapDelete(m, key) == [k \in DOMAIN m \ {key} |-> m[k]]

\* null / undefined, as a value no user object equals
Null == [isNull |-> TRUE]

\* JavaScript truthiness of obj[k]: populated and not the empty string
Truthy(obj, k) == k \in DOMAIN obj /\ obj[k] # <<>>

(***************************************************************************)
(* Strings.                                                                *)
(***************************************************************************)
UpperChars == <<"A", "B", "X">>
LowerChars == <<"a", "b", "x">>

LowerChar(c) ==
    IF \E i \in DOMAIN UpperChars : UpperChars[i] = c
    THEN LowerChars[CHOOSE i \in DOMAIN UpperChars : UpperChars[i] = c]
    ELSE c

\* String.prototype.toLowerCase
toLowerCase(s) == [i \in DOMAIN s |-> LowerChar(s[i])]

\* z.string().email(): one "@" with a non-empty local part and domain
isEmail(s) ==
    \E i \in 2..(Len(s) - 1) :
        /\ s[i] = "@"
        /\ \A j \in DOMAIN s : j # i => s[j] # "@"

EmailA == <<"a", "@", "x">>
EmailAUpper == <<"A", "@", "x">>
EmailB == <<"b", "@", "x">>
EmailLong == <<"a", "b", "@", "x", "x">>
NotAnEmail == <<"a", "x">>

Secret1 == <<"s", "e", "c", "r", "e", "t", "1">>
Hunter2 == <<"h", "u", "n", "t", "e", "r", "2">>
Hunter22 == <<"h", "u", "n", "t", "e", "r", "2", "2">>
TooShort == <<"a", "b", "c">>
Empty == <<>>

(***************************************************************************)
(* bcrypt.                                                                 *)
(***************************************************************************)
SALT_ROUNDS == 12

\* the bcrypt string "$2b$<cost>$<salt><digest of plain under salt and cost>"
bcryptString(plain, cost, salt) == <<"$2b$", cost, salt>> \o plain

\* bcrypt.hash(plain, SALT_ROUNDS), the salt being drawn by the primitive
bcryptHash(plain, salt) == bcryptString(plain, ToString(SALT_ROUNDS), salt)

\* bcrypt.compare(plain, stored): re-hash under the stored cost and salt
bcryptCompare(plain, stored) ==
    /\ Len(stored) >= 3
    /\ stored[1] = "$2b$"
    /\ bcryptString(plain, stored[2], stored[3]) = stored

(***************************************************************************)
(* MemoryAdapter (adapters/memory.ts).  Each operation is a function of    *)
(* the two maps and yields the maps after it.                              *)
(***************************************************************************)
\* crypto.randomUUID(): the n-th identifier handed out
UUID(n) == "uuid-" \o ToString(n)

\* findUserByEmail looking the email up as given, without lower-casing it
findUserByEmailExact(us, ix, email) ==
    IF email \notin DOMAIN ix THEN Null
    ELSE IF ix[email] \in DOMAIN us THEN us[ix[email]] ELSE Null

findUserByEmail(us, ix, email) ==
    LET key == toLowerCase(email) IN
    IF key \notin DOMAIN ix THEN Null
    ELSE IF ix[key] \in DOMAIN us THEN us[ix[key]] ELSE Null

findUserById(us, id) == IF id \in DOMAIN us THEN us[id] ELSE Null

\* the user object createUser builds: { id, ...data, createdAt, updatedAt }
newUser(id, data, t) ==
    Merge(Merge([id |-> id], data), [createdAt |-> t, updatedAt |-> t])

createUser(us, ix, data, id, t) ==
    [users      |-> MapSet(us, id, newUser(id, data, t)),
     emailIndex |-> MapSet(ix, toLowerCase(data.email), id),
     user       |-> newUser(id, data, t)]

\* an update that replaces the record by the partial instead of merging
updatedUserReplacing(user, data, t) == Merge(data, [updatedAt |-> t])

\* { ...user, ...data, updatedAt }
updatedUser(user, data, t) == Merge(Merge(user, data), [updatedAt |-> t])

\* the index after updateUser: re-keyed only when data.email is truthy and differs
reindexed(ix, user, data, id) ==
    IF Truthy(data, "email") /\ data.email # user.email
    THEN MapSet(MapDelete(ix, toLowerCase(user.email)), toLowerCase(data.email), id)
    ELSE ix

updateUser(us, ix, id, data, t) ==
    IF id \notin DOMAIN us
    THEN [users |-> us, emailIndex |-> ix, threw |-> "User not found"]
    ELSE [users      |-> MapSet(us, id, updatedUser(us[id], data, t)),
          emailIndex |-> reindexed(ix, us[id], data, id),
          user       |-> updatedUser(us[id], data, t)]

\* a deleteUser that removes the record and leaves the index as it was
deleteUserKeepingIndex(us, ix, id) ==
    [users      |-> IF id \in DOMAIN us THEN MapDelete(us, id) ELSE us,
     emailIndex |-> ix]

deleteUser(us, ix, id) ==
    IF id \in DOMAIN us
    THEN [users      |-> MapDelete(us, id),
          emailIndex |-> MapDelete(ix, toLowerCase(us[id].email))]
    ELSE [users |-> us, emailIndex |-> ix]

(***************************************************************************)
(* JWTStrategy (strategies/jwt.ts) over jsonwebtoken.                      *)
(***************************************************************************)
\* the '7d' the constructor falls back to, in days
DefaultExpiresIn == 7

\* HMAC of the claims under the secret
HS256(claims, secret) == [over |-> claims, key |-> secret]

\* the timestamp jwt.sign counts from: payload.iat || now
signTimestamp(payload, t) ==
    IF "iat" \in DOMAIN payload /\ payload.iat # 0 THEN payload.iat ELSE t

\* jwt.sign(payload, secret, { expiresIn }): refuses a payload that already
\* carries exp, else stamps iat and exp = timestamp + expiresIn and signs
jwtSign(payload, secret, expiresIn, t) ==
    IF "exp" \in DOMAIN payload
    THEN [threw |-> "Bad \"options.expiresIn\" option the payload already has an \"exp\" property."]
    ELSE LET timestamp == signTimestamp(payload, t)
             claims == Merge(payload, [iat |-> timestamp, exp |-> timestamp + expiresIn])
         IN [token |-> [payload |-> claims, signature |-> HS256(claims, secret)]]

\* generateToken filtering out id alone
claimKeysKeepPassword(user) == DOMAIN user \ {"id"}

\* the attributes generateToken copies: every key but id and password
claimKeys(user) == DOMAIN user \ {"id", "password"}

\* { sub: user.id, email: user.email, ...<the copied attributes> }
claimSet(user) ==
    Merge([sub |-> user.id, email |-> user.email], [k \in claimKeys(user) |-> user[k]])

generateToken(user, strategy, t) ==
    jwtSign(claimSet(user), strategy.secret, strategy.expiresIn, t)

\* { id: decoded.sub, email: decoded.email, ...decoded }
decodedUser(decoded) ==
    Merge([id |-> decoded.sub, email |-> decoded.email], decoded)

\* verify: structure and signature, then expiration, then the subject
verify(token, strategy, t) ==
    IF \/ DOMAIN token # {"payload", "signature"}
       \/ token.signature # HS256(token.payload, strategy.secret)
    THEN [success |-> FALSE, error |-> "Invalid token"]
    ELSE IF t >= token.payload.exp
    THEN [success |-> FALSE, error |-> "Token expired"]
    ELSE IF ~("sub" \in DOMAIN token.payload /\ token.payload.sub # "")
    THEN [success |-> FALSE, error |-> "Invalid token payload"]
    ELSE [success |-> TRUE, user |-> decodedUser(token.payload)]

(***************************************************************************)
(* AuthEngine (core/engine.ts).                                            *)
(***************************************************************************)
\* one collaborator invocation made by an engine call, and whether it raised
Ev(fn) == [fn |-> fn, raised |-> FALSE]
Raised(fn) == [fn |-> fn, raised |-> TRUE]

\* the invocation of a lifecycle callback with the user it was handed
Handed(fn, user, raised) == [fn |-> fn, raised |-> raised, arg |-> user]

\* the invocation of the custom validator with the result it reported
Answered(fn, result) == [fn |-> fn, raised |-> FALSE, result |-> result]

\* sanitizeUser returning the record as stored
sanitizeUserKeepsAll(user) == user

sanitizeUser(user) == Omit(user, {"password"})

\* the checks of a zod validator: z.string().email(message),
\* z.string().min(n, message), z.number().min(n, message)
zEmail(message) == [kind |-> "email", message |-> message]
zMin(n, message) == [kind |-> "min", min |-> n, message |-> message]
zNumberMin(n, message) == [kind |-> "gte", min |-> n, message |-> message]

\* whether a value passes one check of its validator
passes(check, value) ==
    IF check.kind = "email" THEN isEmail(value)
    ELSE IF check.kind = "min" THEN Len(value) >= check.min
    ELSE value >= check.min

\* the issues one field of the shape raises: "Required" when it is missing,
\* else the message of every check of the chain that fails, in chain order
fieldIssues(field, checks, data) ==
    IF field \notin DOMAIN data
    THEN <<[path |-> field, message |-> "Required"]>>
    ELSE LET failing == SelectSeq(checks, LAMBDA c : ~passes(c, data[field]))
         IN [i \in DOMAIN failing |-> [path |-> field, message |-> failing[i].message]]

\* schema[field] = validator for every entry of validation.fields: an entry
\* named like a key of the shape replaces it in place, another is appended
RECURSIVE withFields(_, _)
withFields(schema, fields) ==
    IF fields = <<>> THEN schema
    ELSE LET entry == Head(fields)
             at == {i \in DOMAIN schema : schema[i].field = entry.field}
         IN withFields(IF at = {} THEN Append(schema, entry)
                       ELSE [i \in DOMAIN schema |-> IF i \in at THEN entry ELSE schema[i]],
                       Tail(fields))

\* buildRegisterSchema: the email and password rules, configured or default,
\* then the configured fields
buildRegisterSchema(validation) ==
    withFields(
        <<[field  |-> "email",
           checks |-> IF "email" \in DOMAIN validation THEN validation.email
                      ELSE <<zEmail("Invalid email format")>>],
          [field  |-> "password",
           checks |-> IF "password" \in DOMAIN validation THEN validation.password
                      ELSE <<zMin(6, "Password must be at least 6 characters")>>]>>,
        IF "fields" \in DOMAIN validation THEN validation.fields ELSE <<>>)

\* the issues parsing an object against a shape raises, in shape order
RECURSIVE parseIssues(_, _)
parseIssues(schema, data) ==
    IF schema = <<>> THEN <<>>
    ELSE fieldIssues(Head(schema).field, Head(schema).checks, data)
         \o parseIssues(Tail(schema), data)

\* the issues schema.parse raises for a registration input
registerIssues(cfg, data) == parseIssues(buildRegisterSchema(cfg.validation), data)

\* defaultLoginSchema.parse
loginIssues(credentials) ==
    (IF isEmail(credentials.email) THEN <<>>
     ELSE <<[path |-> "email", message |-> "Invalid email format"]>>)
    \o
    (IF Len(credentials.password) >= 1 THEN <<>>
     ELSE <<[path |-> "password", message |-> "Password is required"]>>)

\* path -> message, a later issue of the same path replacing an earlier one
formatZodError(issues) ==
    [p \in {issues[i].path : i \in DOMAIN issues} |->
        LET last == CHOOSE i \in DOMAIN issues :
                        /\ issues[i].path = p
                        /\ \A j \in DOMAIN issues : issues[j].path = p => j <= i
        IN issues[last].message]

\* firstError being the fallback message whatever the issues
firstErrorGeneric(issues) == "Validation failed"

\* Object.values(errors)[0] || 'Validation failed'
firstError(issues) ==
    IF issues = <<>> THEN "Validation failed"
    ELSE formatZodError(issues)[issues[1].path]

\* the catch branch for a ZodError, leaving error out
validationFailureNoError(issues) ==
    [success |-> FALSE, errors |-> formatZodError(issues)]

\* the catch branch for a ZodError
validationFailure(issues) ==
    [success |-> FALSE, error |-> firstError(issues), errors |-> formatZodError(issues)]

userExists ==
    [success |-> FALSE, error |-> "User already exists",
     errors |-> [email |-> "This email is already registered"]]

\* login telling an unknown email apart
rejectUnknownLeaky ==
    [success |-> FALSE, error |-> "User not found",
     errors |-> [email |-> "No account with this email"]]

\* login's answer when no user is found or the user has no password
rejectUnknown ==
    [success |-> FALSE, error |-> "Invalid credentials",
     errors |-> [general |-> "Invalid email or password"]]

\* login's answer when the password does not match the stored hash
rejectMismatch ==
    [success |-> FALSE, error |-> "Invalid credentials",
     errors |-> [general |-> "Invalid email or password"]]

\* { email: validated.email, password: hashedPassword, ...customFields }
userData(validated, hashedPassword) ==
    Merge([email |-> validated.email, password |-> hashedPassword],
          Omit(validated, {"password"}))

\* what a caller-supplied hook raises, when it raises
HookMessage == "hook failed"

\* the value a caller-supplied function throws: an Error carrying a message
\* ("throw"), or undefined, as of a promise rejected without a reason ("reject")
thrown(kind) == IF kind = "reject" THEN Null ELSE [message |-> HookMessage]

\* what reading .message of undefined raises
TypeErrorMessage == "Cannot read properties of undefined (reading 'message')"

\* the catch branch for anything but a ZodError: prefix + error.message, which
\* itself raises when the caught value is undefined
caught(prefix, error) ==
    IF error = Null THEN [threw |-> TypeErrorMessage]
    ELSE [success |-> FALSE, error |-> prefix \o error.message]

\* the map a failing customValidator reports
CustomErrors == [name |-> "Name can only contain letters"]

\* what customValidator(data) returns: success, failure with a map of errors,
\* failure without one
customResult(kind) ==
    IF kind = "pass" THEN [success |-> TRUE]
    ELSE IF kind = "fail" THEN [success |-> FALSE, errors |-> CustomErrors]
    ELSE [success |-> FALSE]

\* register never returning early for the custom validator
shortCircuitsNever(cfg, result) == FALSE

\* a custom validator is configured and its result is not a success
shortCircuits(cfg, result) == cfg.validation.customValidator /\ ~result.success

\* { success: false, error: 'Validation failed', errors: customResult.errors }
validatorFailure(result) ==
    IF "errors" \in DOMAIN result
    THEN [success |-> FALSE, error |-> "Validation failed", errors |-> result.errors]
    ELSE [success |-> FALSE, error |-> "Validation failed"]

\* the outcome of an engine call: storage after it, what it returned, and the
\* collaborator invocations it made
Outcome(us, ix, n, r, l) ==
    [users |-> us, emailIndex |-> ix, uuidCount |-> n, ret |-> r, log |-> l]

\* register(data).  env holds what the caller-supplied and random collaborators
\* do in this call: env.validator, env.salt, env.hook
register(us, ix, n, t, cfg, data, env) ==
    LET result == customResult(env.validator)
        l0 == IF cfg.validation.customValidator
              THEN <<Answered("customValidator", result)>> ELSE <<>>
        issues == registerIssues(cfg, data)
        existingUser == findUserByEmail(us, ix, data.email)
        hashedPassword == bcryptHash(data.password, env.salt)
        created == createUser(us, ix, userData(data, hashedPassword), UUID(n + 1), t)
        l3 == l0 \o <<Ev("parse"), Ev("findUserByEmail"), Ev("hash"), Ev("createUser")>>
        hooked == "onRegister" \in cfg.callbacks
        l4 == l3 \o (IF hooked THEN <<Handed("onRegister", created.user, FALSE)>> ELSE <<>>)
        signed == generateToken(created.user, cfg.strategy, t)
    IN
    IF cfg.validation.customValidator /\ env.validator = "throw"
    THEN Outcome(us, ix, n, caught("Registration failed: ", thrown("throw")),
                 <<Raised("customValidator")>>)
    ELSE IF shortCircuits(cfg, result)
    THEN Outcome(us, ix, n, validatorFailure(result), l0)
    ELSE IF issues # <<>>
    THEN Outcome(us, ix, n, validationFailure(issues), l0 \o <<Raised("parse")>>)
    ELSE IF existingUser # Null
    THEN Outcome(us, ix, n, userExists, l0 \o <<Ev("parse"), Ev("findUserByEmail")>>)
    ELSE IF hooked /\ env.hook # "ok"
    THEN Outcome(created.users, created.emailIndex, n + 1,
                 caught("Registration failed: ", thrown(env.hook)),
                 l3 \o <<Handed("onRegister", created.user, TRUE)>>)
    ELSE IF "threw" \in DOMAIN signed
    THEN Outcome(created.users, created.emailIndex, n + 1,
                 caught("Registration failed: ", [message |-> signed.threw]),
                 l4 \o <<Raised("generateToken")>>)
    ELSE Outcome(created.users, created.emailIndex, n + 1,
                 [success |-> TRUE, user |-> sanitizeUser(created.user),
                  token |-> signed.token],
                 l4 \o <<Ev("generateToken")>>)

\* login(credentials).  env.hook is what onLogin does in this call
login(us, ix, n, t, cfg, credentials, env) ==
    LET issues == loginIssues(credentials)
        user == findUserByEmail(us, ix, credentials.email)
        l1 == <<Ev("parse"), Ev("findUserByEmail")>>
        l2 == l1 \o <<Ev("compare")>>
        hooked == "onLogin" \in cfg.callbacks
        l3 == l2 \o (IF hooked THEN <<Handed("onLogin", user, FALSE)>> ELSE <<>>)
        signed == generateToken(user, cfg.strategy, t)
    IN
    IF issues # <<>>
    THEN Outcome(us, ix, n, validationFailure(issues), <<Raised("parse")>>)
    ELSE IF user = Null \/ ~Truthy(user, "password")
    THEN Outcome(us, ix, n, rejectUnknown, l1)
    ELSE IF ~bcryptCompare(credentials.password, user.password)
    THEN Outcome(us, ix, n, rejectMismatch, l2)
    ELSE IF hooked /\ env.hook # "ok"
    THEN Outcome(us, ix, n, caught("Login failed: ", thrown(env.hook)),
                 l2 \o <<Handed("onLogin", user, TRUE)>>)
    ELSE IF "threw" \in DOMAIN signed
    THEN Outcome(us, ix, n, caught("Login failed: ", [message |-> signed.threw]),
                 l3 \o <<Raised("generateToken")>>)
    ELSE Outcome(us, ix, n,
                 [success |-> TRUE, user |-> sanitizeUser(user), token |-> signed.token],
                 l3 \o <<Ev("generateToken")>>)

\* verifyToken refusing the token of a user who is no longer stored
verifyTokenRevoking(cfg, token, t) ==
    IF "payload" \in DOMAIN token /\ token.payload.sub \notin DOMAIN users
    THEN [success |-> FALSE, error |-> "Invalid token"]
    ELSE verify(token, cfg.strategy, t)

\* verifyToken(token): the strategy's verify, nothing added
verifyToken(cfg, token, t) == verify(token, cfg.strategy, t)

\* logout(user): onLogout if configured; what it throws reaches the caller
logout(cfg, user, env) ==
    IF "onLogout" \notin cfg.callbacks THEN [ret |-> [void |-> TRUE], log |-> <<>>]
    ELSE IF env.hook = "ok"
    THEN [ret |-> [void |-> TRUE], log |-> <<Handed("onLogout", user, FALSE)>>]
    ELSE [ret |-> [threw |-> IF env.hook = "reject" THEN "undefined" ELSE HookMessage],
          log |-> <<Handed("onLogout", user, TRUE)>>]

\* a getUser that raises for an id that is not stored
getUserOrRaise(us, id) ==
    IF findUserById(us, id) # Null THEN sanitizeUser(findUserById(us, id))
    ELSE [threw |-> "User not found"]

\* getUser(id)
getUser(us, id) ==
    IF findUserById(us, id) # Null THEN sanitizeUser(findUserById(us, id)) ELSE Null

\* updateUser(id, data): the adapter's update, the returned user sanitized; what
\* the adapter throws reaches the caller
engineUpdateUser(us, ix, n, id, data, t) ==
    LET u == updateUser(us, ix, id, data, t) IN
    IF "threw" \in DOMAIN u
    THEN Outcome(u.users, u.emailIndex, n, [threw |-> u.threw], <<Raised("updateUser")>>)
    ELSE Outcome(u.users, u.emailIndex, n, sanitizeUser(u.user), <<Ev("updateUser")>>)

\* deleteUser(id)
engineDeleteUser(us, ix, n, id) ==
    LET d == deleteUser(us, ix, id) IN
    Outcome(d.users, d.emailIndex, n, [void |-> TRUE], <<Ev("deleteUser")>>)

(***************************************************************************)
(* createAuthMiddleware (middleware/express.ts).  A header is absent       *)
(* (Null) or a scheme prefix followed by the rest of the string; what the  *)
(* middleware did to req, res and next is its outcome.                     *)
(***************************************************************************)
\* authHeader && authHeader.startsWith('Bearer ')
isBearer(headers) ==
    "authorization" \in DOMAIN headers /\ headers.authorization.scheme = "Bearer "

\* res.status(401).json({ success: false, error })
unauthorized(message) == [status |-> 401, body |-> [success |-> FALSE, error |-> message]]

\* result.error || 'Invalid token'
errorOf(result) ==
    IF "error" \in DOMAIN result /\ result.error # "" THEN result.error ELSE "Invalid token"

\* result.success && result.user
accepted(result) == result.success /\ "user" \in DOMAIN result

\* what the middleware left behind: req.user when set, the responses it sent,
\* how often it called next, and whether it raised
Handled(user, responses, nextCalls, raised) ==
    IF user = Null
    THEN [responses |-> responses, nextCalls |-> nextCalls, raised |-> raised]
    ELSE [user |-> user, responses |-> responses, nextCalls |-> nextCalls, raised |-> raised]

\* requireAuth()(req, res, next).  env.verify and env.next say whether
\* verifyToken and next return or raise in this request
requireAuth(cfg, headers, t, env) ==
    LET result == verifyToken(cfg, headers.authorization.rest, t) IN
    IF ~isBearer(headers)
    THEN Handled(Null, <<unauthorized("Authentication required")>>, 0, FALSE)
    ELSE IF env.verify = "raise"
    THEN Handled(Null, <<unauthorized("Authentication failed")>>, 0, FALSE)
    ELSE IF ~accepted(result)
    THEN Handled(Null, <<unauthorized(errorOf(result))>>, 0, FALSE)
    ELSE IF env.next = "raise"
    THEN Handled(result.user, <<unauthorized("Authentication failed")>>, 1, FALSE)
    ELSE Handled(result.user, <<>>, 1, FALSE)

\* optionalAuth()(req, res, next): next() in the try block, and again in the
\* catch block, from where what it raises reaches the caller
optionalAuth(cfg, headers, t, env) ==
    LET result == verifyToken(cfg, headers.authorization.rest, t)
        user == IF isBearer(headers) /\ env.verify # "raise" /\ accepted(result)
                THEN result.user ELSE Null
    IN
    IF isBearer(headers) /\ env.verify = "raise"
    THEN Handled(Null, <<>>, 1, env.next = "raise")
    ELSE IF env.next = "raise"
    THEN Handled(user, <<>>, 2, TRUE)
    ELSE Handled(user, <<>>, 1, FALSE)

(***************************************************************************)
(* Configurations and inputs.                                              *)
(***************************************************************************)
\* quickAuth({ secret }): no hooks, no custom validator, the default lifetime
PlainConfig ==
    [callbacks  |-> {},
     validation |-> [customValidator |-> FALSE],
     strategy   |-> [secret |-> "secret", expiresIn |-> DefaultExpiresIn]]

\* createAuth with every hook and a custom validator configured
HookedConfig ==
    [callbacks  |-> {"onRegister", "onLogin", "onLogout"},
     validation |-> [customValidator |-> TRUE],
     strategy   |-> [secret |-> "secret", expiresIn |-> DefaultExpiresIn]]

Emails == {EmailA, EmailAUpper, EmailB}

\* registration inputs: email and password, plus the fields of an extra
RegisterInputs(emails, extras) ==
    {Merge([email |-> e, password |-> p], x) :
        e \in emails, p \in {Secret1, TooShort}, x \in extras}

LoginInputs(emails) ==
    {[email |-> e, password |-> p] : e \in emails, p \in {Secret1, Hunter2, Empty}}

\* the identifiers a caller may name: every UUID a run of n creations hands out
Ids(n) == {UUID(i) : i \in 1..n}

\* what the caller-supplied and random collaborators may do in one call
Envs(cfg, hook, salts) ==
    {env \in [validator : IF cfg.validation.customValidator
                          THEN {"pass", "fail", "bare", "throw"} ELSE {"pass"},
              salt      : salts,
              hook      : IF hook \in cfg.callbacks
                          THEN {"ok", "throw", "reject"} ELSE {"ok"}] :
        env.validator # "pass" => env.hook = "ok"}

NoTasks == <<>>

\* the state after construction with one of the configurations cfgs, the
\* callers' register calls being ts
InitWith(cfgs, ts) ==
    /\ users = <<>>
    /\ emailIndex = <<>>
    /\ uuidCount = 0
    /\ now = 0
    /\ config \in cfgs
    /\ call = [op |-> "init"]
    /\ ret = [void |-> TRUE]
    /\ log = <<>>
    /\ tasks = ts
    /\ held = Null

\* what a call that ran to completion with outcome o did to storage, in a run
\* of at most cap creations
Effects(c, o, cap) ==
    /\ o.uuidCount <= cap
    /\ users' = o.users
    /\ emailIndex' = o.emailIndex
    /\ uuidCount' = o.uuidCount
    /\ call' = c
    /\ ret' = o.ret
    /\ log' = o.log
    /\ UNCHANGED <<now, config, tasks>>

\* a call whose result the caller does not keep
Completes(c, o, cap) == Effects(c, o, cap) /\ UNCHANGED held

\* a call by a client that keeps the token of the AuthResult, if it has one
Keeps(c, o, cap) ==
    /\ Effects(c, o, cap)
    /\ held' = IF "token" \in DOMAIN o.ret THEN o.ret.token ELSE held

Register(inputs, salts, cap) ==
    \E data \in inputs, env \in Envs(config, "onRegister", salts) :
        Completes([op |-> "register", data |-> data],
                  register(users, emailIndex, uuidCount, now, config, data, env), cap)

Login(inputs, cap) ==
    \E credentials \in inputs, env \in Envs(config, "onLogin", {"unused"}) :
        Completes([op |-> "login", data |-> credentials],
                  login(users, emailIndex, uuidCount, now, config, credentials, env), cap)

GetUser(cap) ==
    \E id \in Ids(cap) :
        Completes([op |-> "getUser", id |-> id],
                  Outcome(users, emailIndex, uuidCount, getUser(users, id),
                          <<Ev("findUserById")>>), cap)

UpdateUser(partials, cap) ==
    \E id \in Ids(cap), data \in partials :
        Completes([op |-> "updateUser", id |-> id, data |-> data],
                  engineUpdateUser(users, emailIndex, uuidCount, id, data, now), cap)

DeleteUser(cap) ==
    \E id \in Ids(cap) :
        Completes([op |-> "deleteUser", id |-> id],
                  engineDeleteUser(users, emailIndex, uuidCount, id), cap)

(***************************************************************************)
(* Spec: the engine under the default configuration, calls one after the   *)
(* other, with enough creations for records to collide on an email.        *)
(***************************************************************************)
\* updates of the email: to another address, to another letter case, to the
\* empty string
EmailPartials == {[email |-> e] : e \in Emails \cup {Empty}}

Init == InitWith({PlainConfig}, NoTasks)

Next ==
    \/ Register(RegisterInputs(Emails \cup {NotAnEmail}, {<<>>}), {"salt1"}, MaxUsers)
    \/ Login(LoginInputs(Emails \cup {NotAnEmail}), MaxUsers)
    \/ GetUser(MaxUsers)
    \/ UpdateUser(EmailPartials, MaxUsers)
    \/ DeleteUser(MaxUsers)

Spec == Init /\ [][Next]_vars

(***************************************************************************)
(* FieldSpec: the engine with and without hooks and a custom validator,    *)
(* over inputs and updates that vary the fields of a record.               *)
(***************************************************************************)
\* creations in a run that varies the fields
MaxFieldUsers == 1

\* the fields a registration input may carry besides email and password
Extras == {<<>>, [name |-> "Ann"], [sub |-> "other"], [exp |-> 0]}

FieldPartials == {[password |-> Empty], [password |-> Hunter2], [name |-> "Bob"]}

FieldInit == InitWith({PlainConfig, HookedConfig}, NoTasks)

FieldNext ==
    \/ Register(RegisterInputs({EmailA, NotAnEmail}, Extras), {"salt1"}, MaxFieldUsers)
    \/ Login(LoginInputs({EmailA, EmailAUpper, EmailB, NotAnEmail}), MaxFieldUsers)
    \/ GetUser(MaxFieldUsers)
    \/ UpdateUser(FieldPartials, MaxFieldUsers)
    \/ DeleteUser(MaxFieldUsers)

FieldSpec == FieldInit /\ [][FieldNext]_vars

(***************************************************************************)
(* TokenSpec: one client that registers, logs in and keeps its token, the  *)
(* clock advancing, and the token (or a forgery of it) presented to        *)
(* verifyToken and to the middleware while the user is updated, logged out *)
(* and deleted.                                                            *)
(***************************************************************************)
\* days the clock runs, one more than the default lifetime
MaxDays == 8

\* createAuth with a lifetime of two days and an onLogout hook
TwoDayConfig ==
    [callbacks  |-> {"onLogout"},
     validation |-> [customValidator |-> FALSE],
     strategy   |-> [secret |-> "secret", expiresIn |-> 2]]

\* createAuth with a lifetime of two days, every hook and a custom validator
ShortConfig ==
    [callbacks  |-> {"onRegister", "onLogin", "onLogout"},
     validation |-> [customValidator |-> TRUE],
     strategy   |-> [secret |-> "secret", expiresIn |-> 2]]

\* a string that is not a JWT
Malformed == [garbage |-> TRUE]

\* the token's payload signed under another secret
forged(token) ==
    [payload |-> token.payload, signature |-> HS256(token.payload, "guess")]

\* the token with its expiration pushed back, the signature left as it was
tampered(token) ==
    [payload   |-> Merge(token.payload, [exp |-> token.payload.exp + 1]),
     signature |-> token.signature]

\* what a client holding the token may present
Presentable(token) ==
    IF token = Null THEN {Malformed}
    ELSE {token, forged(token), tampered(token), Malformed}

\* request headers: none for authorization, another scheme, or "Bearer "
\* followed by a token
Requests(token) ==
    {[host |-> "example"], [authorization |-> [scheme |-> "Basic ", rest |-> Malformed]]}
    \cup {[authorization |-> [scheme |-> "Bearer ", rest |-> tok]] :
              tok \in Presentable(token)}

\* whether verifyToken and next return or raise in one request
MiddlewareEnvs == [verify : {"return", "raise"}, next : {"return", "raise"}]

\* fields of a registration input that name registered claims
ClaimExtras == {<<>>, [sub |-> ""], [iat |-> 3]}

\* a day passes; no call is under way
Tick(days) ==
    /\ now < days
    /\ now' = now + 1
    /\ call' = [op |-> "tick"]
    /\ ret' = [void |-> TRUE]
    /\ log' = <<>>
    /\ UNCHANGED <<users, emailIndex, uuidCount, config, tasks, held>>

ClientRegister(inputs, salts, cap) ==
    \E data \in inputs, env \in Envs(config, "onRegister", salts) :
        Keeps([op |-> "register", data |-> data],
              register(users, emailIndex, uuidCount, now, config, data, env), cap)

ClientLogin(inputs, cap) ==
    \E credentials \in inputs, env \in Envs(config, "onLogin", {"unused"}) :
        Keeps([op |-> "login", data |-> credentials],
              login(users, emailIndex, uuidCount, now, config, credentials, env), cap)

VerifyToken(cap) ==
    \E token \in Presentable(held) :
        Completes([op |-> "verifyToken", token |-> token],
                  Outcome(users, emailIndex, uuidCount, verifyToken(config, token, now),
                          <<Ev("verify")>>), cap)

\* the logout route: engine.logout(req.user) for the user of the held token
Logout(cap) ==
    \E env \in Envs(config, "onLogout", {"unused"}) :
        /\ held # Null
        /\ accepted(verifyToken(config, held, now))
        /\ LET user == verifyToken(config, held, now).user
               o == logout(config, user, env)
           IN Completes([op |-> "logout", user |-> user],
                        Outcome(users, emailIndex, uuidCount, o.ret, o.log), cap)

RequireAuth(cap) ==
    \E headers \in Requests(held), env \in MiddlewareEnvs :
        Completes([op |-> "requireAuth", headers |-> headers, env |-> env],
                  Outcome(users, emailIndex, uuidCount,
                          requireAuth(config, headers, now, env), <<>>), cap)

OptionalAuth(cap) ==
    \E headers \in Requests(held), env \in MiddlewareEnvs :
        Completes([op |-> "optionalAuth", headers |-> headers, env |-> env],
                  Outcome(users, emailIndex, uuidCount,
                          optionalAuth(config, headers, now, env), <<>>), cap)

TokenInit == InitWith({PlainConfig, TwoDayConfig}, NoTasks)

TokenNext ==
    \/ ClientRegister(RegisterInputs({EmailA}, ClaimExtras), {"salt1"}, MaxFieldUsers)
    \/ ClientLogin(LoginInputs({EmailA}), MaxFieldUsers)
    \/ VerifyToken(MaxFieldUsers)
    \/ Logout(MaxFieldUsers)
    \/ UpdateUser({[name |-> "Bob"]}, MaxFieldUsers)
    \/ DeleteUser(MaxFieldUsers)
    \/ Tick(MaxDays)

TokenSpec == TokenInit /\ [][TokenNext]_vars

(***************************************************************************)
(* GuardSpec: the engine with everything configured and a two-day          *)
(* lifetime, and requests through requireAuth and optionalAuth carrying    *)
(* the client's token, a forgery of it or no token.                        *)
(***************************************************************************)
\* days the clock runs, one more than the two-day lifetime
MaxGuardDays == 3

GuardInit == InitWith({ShortConfig}, NoTasks)

GuardNext ==
    \/ ClientRegister(RegisterInputs({EmailA, NotAnEmail}, {<<>>, [sub |-> ""]}),
                      {"salt1"}, MaxFieldUsers)
    \/ ClientLogin(LoginInputs({EmailA, NotAnEmail}), MaxFieldUsers)
    \/ VerifyToken(MaxFieldUsers)
    \/ RequireAuth(MaxFieldUsers)
    \/ OptionalAuth(MaxFieldUsers)
    \/ DeleteUser(MaxFieldUsers)
    \/ Tick(MaxGuardDays)

GuardSpec == GuardInit /\ [][GuardNext]_vars

(***************************************************************************)
(* RevocationSpec: one client with a token, presented to verifyToken and   *)
(* requireAuth while its user is logged out, updated and deleted.          *)
(***************************************************************************)
RevocationInit == InitWith({TwoDayConfig}, NoTasks)

RevocationNext ==
    \/ ClientRegister({[email |-> EmailA, password |-> Secret1]}, {"salt1"}, MaxFieldUsers)
    \/ ClientLogin({[email |-> EmailA, password |-> Secret1]}, MaxFieldUsers)
    \/ VerifyToken(MaxFieldUsers)
    \/ RequireAuth(MaxFieldUsers)
    \/ Logout(MaxFieldUsers)
    \/ UpdateUser({[name |-> "Bob"]}, MaxFieldUsers)
    \/ DeleteUser(MaxFieldUsers)
    \/ Tick(MaxGuardDays)

RevocationSpec == RevocationInit /\ [][RevocationNext]_vars

(***************************************************************************)
(* ValidationSpec: registration under the default rules, under a declared  *)
(* extra field, and under overridden email and password rules behind a     *)
(* custom validator.                                                       *)
(***************************************************************************)
\* validation.fields = { age: z.number().min(18, ...) }, and an onRegister hook
AgeConfig ==
    [callbacks  |-> {"onRegister"},
     validation |-> [customValidator |-> FALSE,
                     fields |-> <<[field  |-> "age",
                                   checks |-> <<zNumberMin(18, "Must be at least 18")>>]>>],
     strategy   |-> [secret |-> "secret", expiresIn |-> DefaultExpiresIn]]

\* validation.email and validation.password overridden, a custom validator
\* and an onRegister hook
StrictConfig ==
    [callbacks  |-> {"onRegister"},
     validation |-> [customValidator |-> TRUE,
                     email    |-> <<zEmail("Bad email"), zMin(5, "Email too short")>>,
                     password |-> <<zMin(8, "Password must be at least 8 characters")>>],
     strategy   |-> [secret |-> "secret", expiresIn |-> DefaultExpiresIn]]

\* inputs that pass and fail each of the rule sets, with and without an age
ValidationInputs ==
    {Merge([email |-> e, password |-> p], x) :
        e \in {EmailA, EmailLong, NotAnEmail},
        p \in {Secret1, TooShort, Hunter22},
        x \in {<<>>, [age |-> 17], [age |-> 18]}}

ValidationInit == InitWith({PlainConfig, AgeConfig, StrictConfig}, NoTasks)

ValidationNext ==
    \/ Register(ValidationInputs, {"salt1"}, MaxFieldUsers)
    \/ Login(LoginInputs({EmailA, EmailLong, NotAnEmail}), MaxFieldUsers)
    \/ DeleteUser(MaxFieldUsers)

ValidationSpec == ValidationInit /\ [][ValidationNext]_vars

(***************************************************************************)
(* RegistrySpec: only register, login and deleteUser, one after the other. *)
(***************************************************************************)
RegistryNext ==
    \/ Register(RegisterInputs(Emails \cup {NotAnEmail}, {<<>>}), {"salt1"}, MaxUsers)
    \/ Login(LoginInputs(Emails), MaxUsers)
    \/ DeleteUser(MaxUsers)

RegistrySpec == Init /\ [][RegistryNext]_vars

(***************************************************************************)
(* RaceSpec: register calls of several callers, interleaved at the awaits  *)
(* of register (engine.ts:89, 99, 104, 111, 114).  A step runs one caller  *)
(* from one await to the next.                                             *)
(***************************************************************************)
Callers == 1..MaxTasks

Idle == [pc |-> "idle"]

RaceInit == InitWith({PlainConfig, HookedConfig}, [p \in Callers |-> Idle])

\* caller p's position and locals become t; storage is left alone
Moves(p, t) ==
    /\ tasks' = [tasks EXCEPT ![p] = t]
    /\ UNCHANGED <<users, emailIndex, uuidCount, now, config, call, ret, log, held>>

\* the call starts: custom validator, schema.parse, and the adapter's lookup,
\* which reads the index before register is suspended (engine.ts:73-89)
RegStart(p) ==
    \E data \in RegisterInputs(Emails, {<<>>}), v \in Envs(config, "onRegister", {"salt1"}) :
        /\ tasks[p].pc = "idle"
        /\ IF config.validation.customValidator /\ v.validator = "throw"
           THEN Moves(p, [pc |-> "returned", data |-> data,
                          ret |-> caught("Registration failed: ", thrown("throw"))])
           ELSE IF shortCircuits(config, customResult(v.validator))
           THEN Moves(p, [pc |-> "returned", data |-> data,
                          ret |-> validatorFailure(customResult(v.validator))])
           ELSE IF registerIssues(config, data) # <<>>
           THEN Moves(p, [pc |-> "returned", data |-> data,
                          ret |-> validationFailure(registerIssues(config, data))])
           ELSE Moves(p, [pc |-> "lookedUp", data |-> data,
                          existingUser |-> findUserByEmail(users, emailIndex, data.email)])

\* resumed with the lookup's result: reject, or start hashing (engine.ts:90-99)
RegAfterLookup(p) ==
    /\ tasks[p].pc = "lookedUp"
    /\ IF tasks[p].existingUser # Null
       THEN Moves(p, [pc |-> "returned", data |-> tasks[p].data, ret |-> userExists])
       ELSE Moves(p, [pc |-> "hashing", data |-> tasks[p].data])

\* resumed with the hash: createUser runs to its end (engine.ts:102-108)
RegAfterHash(p) ==
    \E salt \in {"salt1"} :
        LET data == tasks[p].data
            created == createUser(users, emailIndex,
                                  userData(data, bcryptHash(data.password, salt)),
                                  UUID(uuidCount + 1), now)
        IN
        /\ tasks[p].pc = "hashing"
        /\ users' = created.users
        /\ emailIndex' = created.emailIndex
        /\ uuidCount' = uuidCount + 1
        /\ tasks' = [tasks EXCEPT ![p] = [pc |-> "created", data |-> data,
                                          user |-> created.user]]
        /\ UNCHANGED <<now, config, call, ret, log, held>>

\* resumed with the created user: onRegister, if configured (engine.ts:110-112)
RegAfterCreate(p) ==
    \E v \in Envs(config, "onRegister", {"salt1"}) :
        /\ tasks[p].pc = "created"
        /\ IF "onRegister" \in config.callbacks /\ v.hook # "ok"
           THEN Moves(p, [pc |-> "returned", data |-> tasks[p].data,
                          ret |-> caught("Registration failed: ", thrown(v.hook))])
           ELSE Moves(p, [pc |-> "signing", data |-> tasks[p].data, user |-> tasks[p].user])

\* resumed after the hook: generateToken and the return (engine.ts:114-120)
RegAfterHook(p) ==
    LET signed == generateToken(tasks[p].user, config.strategy, now) IN
    /\ tasks[p].pc = "signing"
    /\ IF "threw" \in DOMAIN signed
       THEN Moves(p, [pc |-> "returned", data |-> tasks[p].data,
                      ret |-> caught("Registration failed: ", [message |-> signed.threw])])
       ELSE Moves(p, [pc |-> "returned", data |-> tasks[p].data,
                      ret |-> [success |-> TRUE, user |-> sanitizeUser(tasks[p].user),
                               token |-> signed.token]])

RaceNext ==
    \E p \in Callers :
        \/ RegStart(p)
        \/ RegAfterLookup(p)
        \/ RegAfterHash(p)
        \/ RegAfterCreate(p)
        \/ RegAfterHook(p)

RaceSpec == RaceInit /\ [][RaceNext]_vars

(***************************************************************************)
(* Properties.                                                             *)
(***************************************************************************)
SameEmail(a, b) == toLowerCase(a) = toLowerCase(b)

\* some stored record carries the email e, compared case-insensitively
HoldsEmail(us, e) == \E id \in DOMAIN us : SameEmail(us[id].email, e)

\* the call got past the custom validator and schema.parse
Validated(l) == \E i \in DOMAIN l : l[i] = Ev("parse")

\* a collaborator raised during the call
SomeRaised(l) == \E i \in DOMAIN l : l[i].raised

\* the call returned an AuthResult, and one of success
Succeeded(r) == "success" \in DOMAIN r /\ r.success

\* C1: a validated registration whose email some stored user already has
\* (case-insensitively) is answered with the "User already exists" result, and
\* leaves the user records and the email index as they were.
C1_DuplicateRejected ==
    [][(/\ call'.op = "register"
        /\ Validated(log')
        /\ HoldsEmail(users, call'.data.email))
       => (/\ ret' = [success |-> FALSE, error |-> "User already exists",
                      errors |-> [email |-> "This email is already registered"]]
           /\ users' = users
           /\ emailIndex' = emailIndex)]_vars

\* C6: after register, login and deleteUser calls made one after the other, no
\* two stored records have the same email up to letter case.
C6_EmailsUnique ==
    \A i \in DOMAIN users : \A j \in DOMAIN users :
        i # j => ~SameEmail(users[i].email, users[j].email)

\* "A@x" was refused while "a@x" is registered, another user being stored too
C6_Witness ==
    /\ call.op = "register"
    /\ call.data.email = EmailAUpper
    /\ ret = userExists
    /\ \E i \in DOMAIN users : users[i].email = EmailA
    /\ Cardinality(DOMAIN users) >= 2

\* C9: a login with schema-valid credentials succeeds (with a token and the
\* sanitized user) exactly when storage holds a user with that email up to
\* letter case, who has a password hash that verifies against the password.
C9_LoginIff ==
    (call.op = "login" /\ loginIssues(call.data) = <<>>)
    => ((/\ Succeeded(ret)
         /\ DOMAIN ret = {"success", "user", "token"})
        <=> (\E id \in DOMAIN users :
                /\ SameEmail(users[id].email, call.data.email)
                /\ Truthy(users[id], "password")
                /\ bcryptCompare(call.data.password, users[id].password)))

\* C10: findUserByEmail(e) returns a record exactly when it is stored with an
\* email equal to e up to letter case, and every stored record is found by its
\* own email.
C10_IndexConsistent ==
    /\ \A id \in DOMAIN users :
           findUserByEmail(users, emailIndex, users[id].email) = users[id]
    /\ \A e \in Emails :
           findUserByEmail(users, emailIndex, e) # Null
               => SameEmail(findUserByEmail(users, emailIndex, e).email, e)

\* the user login looks up for the credentials of the last call
Found == findUserByEmail(users, emailIndex, call.data.email)

\* C2: a login with schema-valid credentials that fails because no user is
\* found, because the user has no password hash, or because the password does
\* not match, returns one and the same value in all three cases, with no user
\* and no token.
C2_OneRejection ==
    (/\ call.op = "login"
     /\ loginIssues(call.data) = <<>>
     /\ \/ Found = Null
        \/ ~Truthy(Found, "password")
        \/ ~bcryptCompare(call.data.password, Found.password))
    => ret = [success |-> FALSE, error |-> "Invalid credentials",
              errors |-> [general |-> "Invalid email or password"]]

\* a login for a stored user whose password has been emptied was rejected
C2_Witness ==
    /\ call.op = "login"
    /\ loginIssues(call.data) = <<>>
    /\ Found # Null
    /\ ~Truthy(Found, "password")
    /\ ~Succeeded(ret)

\* C3: no user returned by register, login, getUser or updateUser has a
\* password attribute.
C3_NoPasswordReturned ==
    /\ call.op \in {"register", "login"} /\ "user" \in DOMAIN ret
           => "password" \notin DOMAIN ret.user
    /\ call.op \in {"getUser", "updateUser"} => "password" \notin DOMAIN ret

\* updateUser set a password on a stored record and returned the record
C3_Witness ==
    /\ call.op = "updateUser"
    /\ call.data = [password |-> Hunter2]
    /\ call.id \in DOMAIN users
    /\ users[call.id].password = Hunter2
    /\ ret = Omit(users[call.id], {"password"})

\* C4: the token of a successful register or login verifies, at once and
\* under the same strategy, to the id of the user the call returned.
C4_RoundTrip ==
    (call.op \in {"register", "login"} /\ Succeeded(ret))
    => (/\ verify(ret.token, config.strategy, now).success
        /\ verify(ret.token, config.strategy, now).user.id = ret.user.id)

\* C5: the claim set generateToken builds for a stored record has no password
\* attribute, and neither has the user verify rebuilds from an issued token.
C5_NoPasswordInToken ==
    /\ \A id \in DOMAIN users : "password" \notin DOMAIN claimSet(users[id])
    /\ (call.op \in {"register", "login"} /\ "token" \in DOMAIN ret)
           => (/\ "password" \notin DOMAIN ret.token.payload
               /\ "password" \notin DOMAIN verify(ret.token, config.strategy, now).user)

\* a token was issued at login for a record that stores a password hash
C5_Witness ==
    /\ call.op = "login"
    /\ "token" \in DOMAIN ret
    /\ Truthy(Found, "password")
    /\ verify(ret.token, config.strategy, now).success

\* C7: when register calls for one email are interleaved at their awaits, no
\* state holds two records for that email, and at most one of the calls
\* returns success.
C7_OneRegistrationPerEmail ==
    /\ \A i \in DOMAIN users : \A j \in DOMAIN users :
           i # j => ~SameEmail(users[i].email, users[j].email)
    /\ \A p \in DOMAIN tasks : \A q \in DOMAIN tasks :
           (/\ p # q
            /\ tasks[p].pc = "returned" /\ Succeeded(tasks[p].ret)
            /\ tasks[q].pc = "returned" /\ Succeeded(tasks[q].ret))
           => ~SameEmail(tasks[p].data.email, tasks[q].data.email)

\* C8: a registration that passes validation and whose email no stored record
\* has returns success with a token and the new record minus its password;
\* exactly one record is added, carrying the email, the extra fields, and the
\* hash of the submitted password instead of the password.
C8_RegisterCreates ==
    [][(/\ call'.op = "register"
        /\ Validated(log')
        /\ ~HoldsEmail(users, call'.data.email))
       => (/\ Succeeded(ret')
           /\ DOMAIN ret' = {"success", "user", "token"}
           /\ \E id \in DOMAIN users' \ DOMAIN users :
                 /\ DOMAIN users' = DOMAIN users \cup {id}
                 /\ \A old \in DOMAIN users : users'[old] = users[old]
                 /\ ret'.user = Omit(users'[id], {"password"})
                 /\ \A k \in DOMAIN call'.data \ {"password"} :
                        users'[id][k] = call'.data[k]
                 /\ users'[id].password # call'.data.password
                 /\ bcryptCompare(call'.data.password, users'[id].password))]_vars

\* the envelope of an AuthResult: success excludes error and errors, failure
\* carries a non-empty error and neither user nor token, errors comes with error
Envelope(r) ==
    /\ r.success => ("error" \notin DOMAIN r /\ "errors" \notin DOMAIN r)
    /\ ~r.success => (/\ "error" \in DOMAIN r
                      /\ r.error # ""
                      /\ "user" \notin DOMAIN r
                      /\ "token" \notin DOMAIN r)
    /\ "errors" \in DOMAIN r => "error" \in DOMAIN r

\* C11: every AuthResult returned by register, login or verifyToken has
\* neither error nor errors when success is true, has a non-empty error and
\* neither user nor token when success is false, and has error whenever it
\* has errors.
C11_Envelope ==
    (call.op \in {"register", "login", "verifyToken"} /\ "success" \in DOMAIN ret)
    => Envelope(ret)

\* verifyToken refused the client's own token for being expired
C11_Witness ==
    /\ call.op = "verifyToken"
    /\ call.token = held
    /\ ret = [success |-> FALSE, error |-> "Token expired"]

\* "Registration failed: " or "Login failed: "
Prefix(op) == IF op = "register" THEN "Registration failed: " ELSE "Login failed: "

\* the messages of the exceptions a collaborator raises in a call
Messages == {HookMessage, jwtSign([exp |-> 0], "secret", 0, 0).threw}

\* the issues of the schema the call parses its input with
IssuesOf(c) ==
    IF c.op = "register" THEN registerIssues(config, c.data) ELSE loginIssues(c.data)

\* C12: register and login never raise: whatever the input and whatever a
\* collaborator raises, the call returns an AuthResult, which has success
\* false when a collaborator raised, its error being the first field message
\* after a schema failure and else "Registration failed: " or "Login
\* failed: " followed by the exception's message.
C12_NeverRaises ==
    call.op \in {"register", "login"}
    => (/\ "threw" \notin DOMAIN ret
        /\ "success" \in DOMAIN ret
        /\ SomeRaised(log)
               => (/\ ~ret.success
                   /\ IF log[Len(log)] = Raised("parse")
                      THEN ret.error = firstError(IssuesOf(call))
                      ELSE ret.error \in {Prefix(call.op) \o m : m \in Messages}))

\* the custom validator ran first in the call and reported a failure
ValidatorFailed(l) ==
    /\ l # <<>>
    /\ l[1].fn = "customValidator"
    /\ ~l[1].raised
    /\ ~l[1].result.success

\* C13: when the configured custom validator reports a failure, register
\* returns success false, error "Validation failed" and the validator's map as
\* errors at once: nothing else is invoked (no schema validation, lookup,
\* hashing, createUser, onRegister, token generation) and storage is unchanged.
C13_ValidatorShortCircuit ==
    [][(call'.op = "register" /\ ValidatorFailed(log'))
       => (/\ ret'.success = FALSE
           /\ ret'.error = "Validation failed"
           /\ DOMAIN ret' \subseteq {"success", "error", "errors"}
           /\ "errors" \in DOMAIN ret' <=> "errors" \in DOMAIN log'[1].result
           /\ "errors" \in DOMAIN ret' => ret'.errors = log'[1].result.errors
           /\ Len(log') = 1
           /\ users' = users
           /\ emailIndex' = emailIndex
           /\ uuidCount' = uuidCount)]_vars

\* the validator refused an input whose email is not even an email, a user
\* being stored, and its map came back
C13_Witness ==
    /\ call.op = "register"
    /\ ValidatorFailed(log)
    /\ call.data.email = NotAnEmail
    /\ users # <<>>
    /\ ret = [success |-> FALSE, error |-> "Validation failed", errors |-> CustomErrors]

\* the fields of the input that violate the rule set of the configuration
Violating(data) ==
    {registerIssues(config, data)[i].path : i \in DOMAIN registerIssues(config, data)}

\* the call answers a violation of the rule set: success false, an entry of
\* errors for each violating field, error one of their messages, storage as it
\* was, neither onRegister nor generateToken invoked
RefusesViolation ==
    /\ "success" \in DOMAIN ret' /\ ~ret'.success
    /\ "errors" \in DOMAIN ret'
    /\ Violating(call'.data) \subseteq DOMAIN ret'.errors
    /\ \E f \in Violating(call'.data) : ret'.error = ret'.errors[f]
    /\ users' = users
    /\ emailIndex' = emailIndex
    /\ \A i \in DOMAIN log' : log'[i].fn \notin {"createUser", "onRegister", "generateToken"}

\* the custom validator, if one is configured, ran and reported success
ValidatorPassed(l) ==
    \/ l = <<>>
    \/ l[1].fn # "customValidator"
    \/ ~l[1].raised /\ l[1].result.success

\* C14 as stated: whenever the registration input violates the effective
\* rule set (default or overridden email and password rules, declared extra
\* fields), register returns success false with an errors entry for each
\* violating field and an error equal to one of those messages, and creates
\* no user, invokes no callback and issues no token.
C14_ViolationRefused ==
    [][(call'.op = "register" /\ Violating(call'.data) # {}) => RefusesViolation]_vars

\* C14, amended: the same, for the calls in which no custom validator is
\* configured or the configured one reported success (a validator that
\* reports failure or raises answers the call before the schema is applied).
C14_ViolationRefusedAfterValidator ==
    [][(/\ call'.op = "register"
        /\ Violating(call'.data) # {}
        /\ ValidatorPassed(log'))
       => RefusesViolation]_vars

\* an age below the declared minimum was refused with the message of the age
\* rule, a user being stored
C14_Witness ==
    /\ call.op = "register"
    /\ config = AgeConfig
    /\ call.data = [email |-> EmailLong, password |-> Secret1, age |-> 17]
    /\ users # <<>>
    /\ ret = [success |-> FALSE, error |-> "Must be at least 18",
              errors |-> [age |-> "Must be at least 18"]]

\* the positions in the log at which fn was invoked
Calls(l, fn) == {i \in DOMAIN l : l[i].fn = fn}

\* C15: in a register call, onRegister is invoked at most once, only after
\* createUser has completed, with the newly created record as stored (password
\* hash included), and before the token is generated; a successful call with
\* the hook configured has invoked it to completion; when the hook fails the
\* call returns success false with a "Registration failed: " message and no
\* token; and the hook is not invoked when no record was created.
C15_HookOrdering ==
    [][call'.op = "register"
       => (/\ Cardinality(Calls(log', "onRegister")) <= 1
           /\ \A i \in Calls(log', "onRegister") :
                  /\ \E j \in Calls(log', "createUser") : j < i /\ ~log'[j].raised
                  /\ log'[i].arg.id \notin DOMAIN users
                  /\ log'[i].arg.id \in DOMAIN users'
                  /\ users'[log'[i].arg.id] = log'[i].arg
                  /\ "password" \in DOMAIN log'[i].arg
                  /\ \A j \in Calls(log', "generateToken") : i < j
                  /\ log'[i].raised
                         => (/\ Calls(log', "generateToken") = {}
                             /\ "success" \in DOMAIN ret'
                             /\ ~ret'.success
                             /\ "token" \notin DOMAIN ret'
                             /\ ret'.error \in {"Registration failed: " \o m :
                                                    m \in {HookMessage, "undefined"}})
           /\ (Succeeded(ret') /\ "onRegister" \in config.callbacks)
                  => \E i \in Calls(log', "onRegister") : ~log'[i].raised
           /\ Calls(log', "createUser") = {} => Calls(log', "onRegister") = {})]_vars

\* the token has the structure of a JWT and its signature is the one the
\* configured secret gives its payload
WellSigned(token) ==
    /\ DOMAIN token = {"payload", "signature"}
    /\ token.signature = HS256(token.payload, config.strategy.secret)

\* C16: a failed verify reports one of three causes and no other message:
\* "Invalid token" for a token whose signature or structure is invalid, "Token
\* expired" for a correctly signed token whose expiration has elapsed, "Token
\* verification failed" for any other exception.
C16_ThreeCauses ==
    (call.op = "verifyToken" /\ ~ret.success)
    => (/\ ret.error \in {"Invalid token", "Token expired", "Token verification failed"}
        /\ ~WellSigned(call.token) => ret.error = "Invalid token"
        /\ (WellSigned(call.token) /\ now > call.token.payload.exp)
               => ret.error = "Token expired")

\* C17: a token issued by register or login expires at the time of issuance
\* plus the configured lifetime (seven days when none is configured); the
\* client's token verifies at any time strictly before its expiration, and
\* fails with "Token expired" at any time strictly after it.
C17_ExpirationBoundary ==
    /\ (call.op \in {"register", "login"} /\ "token" \in DOMAIN ret)
           => ret.token.payload.exp = now + config.strategy.expiresIn
    /\ (call.op = "verifyToken" /\ call.token = held)
           => (/\ now < held.payload.exp => ret.success
               /\ now > held.payload.exp
                      => ret = [success |-> FALSE, error |-> "Token expired"])

\* the token is correctly signed, names a subject and has not expired
Live(token) ==
    /\ WellSigned(token)
    /\ "sub" \in DOMAIN token.payload
    /\ token.payload.sub # ""
    /\ now < token.payload.exp

\* the request carries the client's token as "Bearer <token>"
BearsHeld(headers) ==
    headers = [authorization |-> [scheme |-> "Bearer ", rest |-> held]]

\* C18: whatever logout, updateUser and deleteUser calls were made since it
\* was issued, the client's token is accepted by verifyToken and by
\* requireAuth as long as it is correctly signed and has not expired, and
\* resolves to its subject.
C18_NoRevocation ==
    /\ (call.op = "verifyToken" /\ held # Null /\ call.token = held /\ Live(held))
           => (ret.success /\ ret.user.id = held.payload.sub)
    /\ (/\ call.op = "requireAuth" /\ held # Null /\ BearsHeld(call.headers)
        /\ Live(held) /\ call.env.verify = "return")
           => (/\ ret.nextCalls = 1
               /\ "user" \in DOMAIN ret
               /\ ret.user.id = held.payload.sub)

\* requireAuth let the token of a deleted user through
C18_Witness ==
    /\ call.op = "requireAuth"
    /\ held # Null
    /\ BearsHeld(call.headers)
    /\ users = <<>>
    /\ ret.nextCalls = 1
    /\ ret.responses = <<>>
    /\ ret.user.id = held.payload.sub

\* the middleware answered 401 with { success: false, error }, did not call
\* next and did not set req.user
Rejected(r) ==
    /\ Len(r.responses) = 1
    /\ r.responses[1].status = 401
    /\ DOMAIN r.responses[1].body = {"success", "error"}
    /\ r.responses[1].body.success = FALSE
    /\ r.responses[1].body.error # ""
    /\ r.nextCalls = 0
    /\ "user" \notin DOMAIN r

\* the middleware set req.user, called next once and sent no response
Admitted(r) ==
    /\ "user" \in DOMAIN r
    /\ r.nextCalls = 1
    /\ r.responses = <<>>

\* the request carries "Bearer <token>" and verifyToken returned success with
\* a user for the token
Verified(c) ==
    /\ isBearer(c.headers)
    /\ c.env.verify = "return"
    /\ accepted(verifyToken(config, c.headers.authorization.rest, now))

\* C19: whatever the request, token verification and the handler behind next
\* do (raising included), requireAuth either answers 401 with { success:
\* false, error }, without calling next or setting req.user, or sets req.user
\* to the verified identity and calls next exactly once without sending a
\* response; the latter only for a "Bearer " header whose token verifyToken
\* accepted with a user.
C19_RequireAuthProtocol ==
    call.op = "requireAuth"
    => (/\ Rejected(ret) \/ Admitted(ret)
        /\ ~ret.raised
        /\ "user" \in DOMAIN ret
               => (/\ Verified(call)
                   /\ ret.user = verifyToken(config, call.headers.authorization.rest,
                                             now).user))

\* C20: whatever the request, token verification and the handler behind next
\* do (raising included), optionalAuth calls next exactly once and sends no
\* response, and sets req.user exactly when the request carries a "Bearer "
\* header whose token verifyToken accepts with a user.
C20_OptionalAuthProtocol ==
    call.op = "optionalAuth"
    => (/\ ret.nextCalls = 1
        /\ ret.responses = <<>>
        /\ "user" \in DOMAIN ret <=> Verified(call))

(***************************************************************************)
(* The route handlers returned by quickAuth and createAuth (index.ts).     *)
(* What a handler did to res is its outcome: the responses it sent and     *)
(* whether the promise it returned was rejected.                           *)
(***************************************************************************)
\* the responses a handler sent, and whether it raised
Routed(responses, raised) == [responses |-> responses, raised |-> raised]

\* res.status(status).json(body)
respond(status, body) == [status |-> status, body |-> body]

\* res.status(result.success ? ok : ko).json(result), after an awaited engine
\* call; what the engine call raises leaves the handler before res is used
answer(result, ok, ko) ==
    IF "threw" \in DOMAIN result THEN Routed(<<>>, TRUE)
    ELSE Routed(<<respond(IF result.success THEN ok ELSE ko, result)>>, FALSE)

\* register()(req, res)
registerRoute(result) == answer(result, 201, 400)

\* login()(req, res)
loginRoute(result) == answer(result, 200, 401)

\* logout()(req, res): engine.logout when req.user is set, then res.json
logoutRoute(cfg, reqUser, env) ==
    LET o == IF reqUser = Null THEN [ret |-> [void |-> TRUE], log |-> <<>>]
             ELSE logout(cfg, reqUser, env)
    IN
    IF "threw" \in DOMAIN o.ret
    THEN [ret |-> Routed(<<>>, TRUE), log |-> o.log]
    ELSE [ret |-> Routed(<<respond(200, [success |-> TRUE])>>, FALSE), log |-> o.log]

\* me()(req, res)
meRoute(reqUser) ==
    IF reqUser = Null
    THEN Routed(<<respond(401, [success |-> FALSE, error |-> "Not authenticated"])>>, FALSE)
    ELSE Routed(<<respond(200, [success |-> TRUE, user |-> reqUser])>>, FALSE)

\* req.user as the optionalAuth middleware leaves it for a client that holds
\* the token: unset, or the verified identity
ReqUsers(cfg, token, t) ==
    {Null} \cup (IF token # Null /\ accepted(verifyToken(cfg, token, t))
                 THEN {verifyToken(cfg, token, t).user} ELSE {})

\* a request to a route backed by an engine call with outcome o; the client
\* keeps the token of the response body, if it has one
Routes(c, o, r, cap) ==
    /\ Effects(c, Outcome(o.users, o.emailIndex, o.uuidCount, r, o.log), cap)
    /\ held' = IF "token" \in DOMAIN o.ret THEN o.ret.token ELSE held

RegisterRoute(inputs, salts, cap) ==
    \E data \in inputs, env \in Envs(config, "onRegister", salts) :
        LET o == register(users, emailIndex, uuidCount, now, config, data, env)
        IN Routes([op |-> "POST register", data |-> data], o, registerRoute(o.ret), cap)

LoginRoute(inputs, cap) ==
    \E credentials \in inputs, env \in Envs(config, "onLogin", {"unused"}) :
        LET o == login(users, emailIndex, uuidCount, now, config, credentials, env)
        IN Routes([op |-> "POST login", data |-> credentials], o, loginRoute(o.ret), cap)

LogoutRoute(cap) ==
    \E reqUser \in ReqUsers(config, held, now), env \in Envs(config, "onLogout", {"unused"}) :
        LET o == logoutRoute(config, reqUser, env)
        IN Completes([op |-> "POST logout", user |-> reqUser, hook |-> env.hook],
                     Outcome(users, emailIndex, uuidCount, o.ret, o.log), cap)

MeRoute(cap) ==
    \E reqUser \in ReqUsers(config, held, now) :
        Completes([op |-> "GET me", user |-> reqUser],
                  Outcome(users, emailIndex, uuidCount, meRoute(reqUser), <<>>), cap)

(***************************************************************************)
(* RouteSpec: one client of the four routes, with and without hooks, the   *)
(* user deleted behind its back.                                           *)
(***************************************************************************)
RouteInit == InitWith({PlainConfig, HookedConfig}, NoTasks)

RouteNext ==
    \/ RegisterRoute(RegisterInputs({EmailA, NotAnEmail}, {<<>>}), {"salt1"}, MaxFieldUsers)
    \/ LoginRoute(LoginInputs({EmailA, NotAnEmail}), MaxFieldUsers)
    \/ LogoutRoute(MaxFieldUsers)
    \/ MeRoute(MaxFieldUsers)
    \/ DeleteUser(MaxFieldUsers)

RouteSpec == RouteInit /\ [][RouteNext]_vars

\* a response with this status whose body is the AuthResult, success or not
Answers(r, ok, ko) ==
    /\ ~r.raised
    /\ Len(r.responses) = 1
    /\ "success" \in DOMAIN r.responses[1].body
    /\ r.responses[1].status = (IF r.responses[1].body.success THEN ok ELSE ko)

\* C21: every request to a route gets exactly one response: register 201 on
\* success and 400 otherwise, login 200 on success and 401 otherwise, logout
\* {success: true} whether or not req.user is set and whatever onLogout does,
\* me {success: true, user: req.user} with an identity and 401 {success:
\* false, error: "Not authenticated"} without one
C21_OneResponse ==
    /\ call.op = "POST register" => Answers(ret, 201, 400)
    /\ call.op = "POST login" => Answers(ret, 200, 401)
    /\ call.op = "POST logout" =>
           ret = Routed(<<respond(200, [success |-> TRUE])>>, FALSE)
    /\ call.op = "GET me" =>
           ret = IF call.user = Null
                 THEN Routed(<<respond(401, [success |-> FALSE,
                                             error |-> "Not authenticated"])>>, FALSE)
                 ELSE Routed(<<respond(200, [success |-> TRUE, user |-> call.user])>>,
                             FALSE)

\* the logout route when onLogout raises: no response is sent
C21_LogoutUnanswered ==
    /\ call.op = "POST logout"
    /\ call.user # Null
    /\ call.hook # "ok"
    /\ ret.responses = <<>>

(***************************************************************************)
(* IdSpec: registrations and updates whose input carries a field `id`.     *)
(***************************************************************************)
\* creations in a run that varies the identifier
MaxIdUsers == 2

\* an identifier chosen by the caller
ChosenId == "chosen"

IdExtras == {<<>>, [id |-> ChosenId]}

\* updates of the identifier, of a field, of the email
IdPartials == {[id |-> ChosenId], [name |-> "Bob"], [email |-> EmailB]}

IdInit == InitWith({PlainConfig}, NoTasks)

IdNext ==
    \/ Register(RegisterInputs({EmailA, EmailB}, IdExtras), {"salt1"}, MaxIdUsers)
    \/ GetUser(MaxIdUsers)
    \/ UpdateUser(IdPartials, MaxIdUsers)
    \/ DeleteUser(MaxIdUsers)

IdSpec == IdInit /\ [][IdNext]_vars

\* C22: every stored record's id is the identifier assigned at creation: it
\* is the key the record is stored under, so that findUserById(r.id) returns
\* r, and no two records share it
C22_IdentifierIntegrity ==
    /\ \A k \in DOMAIN users :
           /\ users[k].id = k
           /\ findUserById(users, users[k].id) = users[k]
    /\ \A j, k \in DOMAIN users : users[j].id = users[k].id => j = k

\* C23: updateUser of an id that is not stored raises "User not found" to
\* the caller of the engine and leaves the records and the index as they
\* were; updateUser of a stored id merges the partial into that record (the
\* partial's fields win, the record's other fields stay), leaves every other
\* record as it was, and returns the updated record without its password
C23_UpdateUser ==
    [][call'.op = "updateUser" =>
          IF call'.id \notin DOMAIN users
          THEN /\ ret' = [threw |-> "User not found"]
               /\ users' = users
               /\ emailIndex' = emailIndex
          ELSE /\ DOMAIN users' = DOMAIN users
               /\ \A k \in DOMAIN users \ {call'.id} : users'[k] = users[k]
               /\ DOMAIN users'[call'.id] =
                      DOMAIN users[call'.id] \cup DOMAIN call'.data
               /\ \A f \in DOMAIN call'.data : users'[call'.id][f] = call'.data[f]
               /\ \A f \in DOMAIN users[call'.id] \ (DOMAIN call'.data \cup {"updatedAt"}) :
                      users'[call'.id][f] = users[call'.id][f]
               /\ users'[call'.id].updatedAt = now
               /\ "password" \notin DOMAIN ret'
               /\ ret' = [f \in DOMAIN users'[call'.id] \ {"password"} |->
                              users'[call'.id][f]]]_vars

\* an update of one of two stored records has returned
C23_Witness ==
    /\ call.op = "updateUser"
    /\ call.id \in DOMAIN users
    /\ Cardinality(DOMAIN users) = 2
    /\ "name" \in DOMAIN call.data
    /\ "name" \in DOMAIN ret
    /\ "password" \notin DOMAIN ret
    /\ "password" \in DOMAIN users[call.id]

\* C24: deleteUser of a stored id removes the record and the index entry of
\* its email, so that findUserById(id) and findUserByEmail(its email) return
\* null, and leaves every other record and every other index entry as they
\* were; deleteUser of an id that is not stored changes nothing; neither
\* raises
C24_DeleteUser ==
    [][call'.op = "deleteUser" =>
          /\ ret' = [void |-> TRUE]
          /\ IF call'.id \in DOMAIN users
             THEN /\ DOMAIN users' = DOMAIN users \ {call'.id}
                  /\ \A k \in DOMAIN users' : users'[k] = users[k]
                  /\ DOMAIN emailIndex' =
                         DOMAIN emailIndex \ {toLowerCase(users[call'.id].email)}
                  /\ \A e \in DOMAIN emailIndex' : emailIndex'[e] = emailIndex[e]
                  /\ findUserById(users', call'.id) = Null
                  /\ findUserByEmail(users', emailIndex', users[call'.id].email) = Null
             ELSE /\ users' = users
                  /\ emailIndex' = emailIndex]_vars

\* one of two records has been deleted, the other and its index entry remain
C24_Witness ==
    /\ call.op = "deleteUser"
    /\ uuidCount = 2
    /\ call.id \notin DOMAIN users
    /\ Cardinality(DOMAIN users) = 1
    /\ \E e \in DOMAIN emailIndex : emailIndex[e] \in DOMAIN users

(***************************************************************************)
(* ReadSpec: the calls that only read (getUser, login, verifyToken,        *)
(* logout) among registrations, updates and deletions, with and without    *)
(* hooks.                                                                  *)
(***************************************************************************)
ReadInit == InitWith({PlainConfig, HookedConfig}, NoTasks)

ReadNext ==
    \/ ClientRegister(RegisterInputs({EmailA}, {<<>>}), {"salt1"}, MaxFieldUsers)
    \/ ClientLogin(LoginInputs({EmailA, NotAnEmail}), MaxFieldUsers)
    \/ GetUser(MaxFieldUsers)
    \/ VerifyToken(MaxFieldUsers)
    \/ Logout(MaxFieldUsers)
    \/ UpdateUser({[name |-> "Bob"]}, MaxFieldUsers)
    \/ DeleteUser(MaxFieldUsers)

ReadSpec == ReadInit /\ [][ReadNext]_vars

\* C25: getUser, login, verifyToken and logout leave the records and the
\* index as they were, whether they succeed or fail; getUser returns the
\* stored record without its password, a function of the id and the storage
\* (so two calls with no mutation between them return equal results), and
\* null, without raising, for an id that is not stored
C25_ReadOnly ==
    [][/\ call'.op \in {"getUser", "login", "verifyToken", "logout"} =>
              /\ users' = users
              /\ emailIndex' = emailIndex
       /\ call'.op = "getUser" =>
              ret' = IF call'.id \in DOMAIN users
                     THEN [f \in DOMAIN users[call'.id] \ {"password"} |->
                               users[call'.id][f]]
                     ELSE Null]_vars

\* getUser of the id of a deleted user has returned null
C25_Witness ==
    /\ call.op = "getUser"
    /\ uuidCount = 1
    /\ call.id = UUID(1)
    /\ users = <<>>
    /\ ret = Null

\* the stored user a login looks up
Sought(c) == findUserByEmail(users, emailIndex, c.data.email)

\* the credentials pass the login schema, a user with a password hash is
\* found, and the password matches the hash
Matched(c) ==
    /\ loginIssues(c.data) = <<>>
    /\ Sought(c) # Null
    /\ Truthy(Sought(c), "password")
    /\ bcryptCompare(c.data.password, Sought(c).password)

\* C26: in a login call with onLogin configured, the hook is invoked exactly
\* once when the credentials pass the schema, the user is found with a hash
\* and the password matches, with that user, before the token is generated,
\* and not at all otherwise; when the hook fails the call returns success
\* false with a "Login failed: " message and no token
C26_LoginHook ==
    [][call'.op = "login"
       => (/\ Cardinality(Calls(log', "onLogin")) =
                  (IF Matched(call') /\ "onLogin" \in config.callbacks THEN 1 ELSE 0)
           /\ \A i \in Calls(log', "onLogin") :
                  /\ log'[i].arg = Sought(call')
                  /\ \A j \in Calls(log', "generateToken") : i < j
                  /\ log'[i].raised
                         => (/\ Calls(log', "generateToken") = {}
                             /\ "success" \in DOMAIN ret'
                             /\ ~ret'.success
                             /\ "token" \notin DOMAIN ret'
                             /\ ret'.error \in {"Login failed: " \o m :
                                                    m \in {HookMessage, "undefined"}}))]_vars

\* C27: a register call that returns success false, for whatever cause, has
\* added no user record and no index entry, so that the same input can be
\* registered again
C27_AllOrNothing ==
    [][(/\ call'.op = "register"
        /\ "success" \in DOMAIN ret'
        /\ ~ret'.success)
       => (/\ users' = users
           /\ emailIndex' = emailIndex)]_vars

(***************************************************************************)
(* AgreementSpec: registration under the default rules, under stricter     *)
(* and under laxer overridden rules, each registration followed by logins. *)
(***************************************************************************)
\* validation.email overridden by z.string().min(1, ...) and
\* validation.password by z.string()
LaxConfig ==
    [callbacks  |-> {},
     validation |-> [customValidator |-> FALSE,
                     email    |-> <<zMin(1, "Email is required")>>,
                     password |-> <<>>],
     strategy   |-> [secret |-> "secret", expiresIn |-> DefaultExpiresIn]]

\* credentials that pass and fail each of the rule sets
AgreementInputs ==
    {[email |-> e, password |-> p] :
        e \in {EmailA, EmailLong, NotAnEmail}, p \in {Secret1, Hunter22, TooShort, Empty}}

AgreementInit == InitWith({PlainConfig, StrictConfig, LaxConfig}, NoTasks)

AgreementNext ==
    \/ Register(AgreementInputs, {"salt1"}, MaxFieldUsers)
    \/ Login(AgreementInputs, MaxFieldUsers)
    \/ DeleteUser(MaxFieldUsers)

AgreementSpec == AgreementInit /\ [][AgreementNext]_vars

\* C28: whatever the validation configuration, a login that directly follows
\* a successful register, with the email and password of that registration,
\* succeeds
C28_RegisterLoginAgree ==
    [][(/\ call.op = "register"
        /\ Succeeded(ret)
        /\ call'.op = "login"
        /\ call'.data.email = call.data.email
        /\ call'.data.password = call.data.password)
       => Succeeded(ret')]_vars

\* C29: every stored record's password is the output of the engine's
\* hashing function for some plaintext, never a caller-supplied plaintext, so
\* that a login with the user's current password succeeds; after an update
\* of the password, the current password is the one of the update
C29_PasswordsHashed ==
    /\ \A k \in DOMAIN users :
           /\ "password" \in DOMAIN users[k]
           /\ \E plain \in {Secret1, Hunter2, Empty} :
                  users[k].password = bcryptHash(plain, "salt1")
    /\ (call.op = "updateUser" /\ call.id \in DOMAIN users
            /\ "password" \in DOMAIN call.data)
           => bcryptCompare(call.data.password, users[call.id].password)

====
